---- MODULE Spec2Model ----
(***************************************************************************)
(* The user service of main.go: the cache (UserCache), the cache-aside     *)
(* proxy (CachedUserRep) over the SQL repository (UserRep), and the        *)
(* business service (UserServ) that calls the proxy.  Every caller         *)
(* (one goroutine per HTTP request) is a process; a process moves one      *)
(* source statement, or one locked section, at a time.                     *)
(***************************************************************************)
EXTENDS Integers, Sequences, FiniteSets, TLC

\* ---------------------------------------------------------------- bounds
NumProcs == 2      \* concurrent callers
NumEmails == 2     \* distinct email values
NumNames == 1      \* distinct name/password payloads
MaxRows == 2       \* rows the users table may hold (INSERT is not offered beyond it)

\* ------------------------------------------------------------- constants
AdultAge == 18     \* main.go:177  user.Age < 18

Procs == 1..NumProcs
Emails == 1..NumEmails
Names == 1..NumNames
Ages == {AdultAge - 1, AdultAge}

\* type User struct (main.go:26-31); password and name are one opaque payload
User == [email : Emails, name : Names, age : Ages]
NoUser == [email |-> 0, name |-> 0, age |-> 0]      \* the zero value of User

\* error values
Nil == "nil"
ErrNoRows == "sql.ErrNoRows"
StoreErrors == {"store: query failed", "store: connection lost"}
ErrAge == "age below 18"
ErrDup == "email already registered"

\* *User values.  A pointer to a variable nobody writes after it is shared is
\* identified with the value it points to; a pointer to the loop variable of
\* CachedUserRep.List, which the loop keeps assigning, names its owner.
NilPtr == [kind |-> "nil"]
Own(u) == [kind |-> "own", rec |-> u]
LoopPtr(p) == [kind |-> "loop", owner |-> p]

VARIABLES
    db,            \* the rows of table users, in rowid order (UserRep.db)
    users,         \* UserCache.users: map email -> *User
    mutex,         \* UserCache.mutex: [w: a writer holds it, r: number of readers]
    loopVar,       \* per caller, the variable `user` of the range loop of List
    perIter,       \* the build gives the range loop a fresh variable per iteration
    proc,          \* per caller: program counter, arguments, locals
    last           \* per caller: the call it completed last, with its results

vars == <<db, users, mutex, loopVar, perIter, proc, last>>

\* ------------------------------------------------------------ helpers
Range(s) == {s[i] : i \in DOMAIN s}

SeqsUpTo(S, n) == UNION {[1..k -> S] : k \in 0..n}

\* rows whose emails are pairwise different
DupFree(s) == \A i, j \in DOMAIN s : i # j => s[i].email # s[j].email

\* *ptr, read by the goroutine that owns the variable or with nobody writing it
Deref(ptr) ==
    IF ptr.kind = "own" THEN ptr.rec
    ELSE IF ptr.kind = "loop" THEN loopVar[ptr.owner]
    ELSE NoUser

\* what a read of a struct may give while another goroutine copies b over a:
\* each field is the old or the new one
Torn(a, b) ==
    {[email |-> x, name |-> y, age |-> z] :
        x \in {a.email, b.email}, y \in {a.name, b.name}, z \in {a.age, b.age}}

\* *ptr, read by any goroutine: the loop variable of List is assigned outside
\* the cache lock (main.go:97), so a read of it may race with the assignment
DerefAny(ptr) ==
    IF ptr.kind = "loop" /\ proc[ptr.owner].pc = "range.copy"
    THEN Torn(loopVar[ptr.owner], proc[ptr.owner].list[proc[ptr.owner].idx])
    ELSE {Deref(ptr)}

Idle == [pc |-> "idle", outer |-> "none", op |-> "none", user |-> NoUser,
         email |-> 0, res |-> NilPtr, list |-> <<>>, idx |-> 0, rerr |-> Nil,
         err |-> Nil, calls |-> 0, hit |-> FALSE, seen |-> {}]

NoCall == [op |-> "none", user |-> NoUser, email |-> 0, rec |-> NoUser,
           list |-> <<>>, rerr |-> Nil, err |-> Nil, calls |-> 0, hit |-> FALSE,
           cache |-> << >>]

\* the table as an earlier run of the service left it: adults, one row per email
Init ==
    /\ db \in {s \in SeqsUpTo({u \in User : u.age >= AdultAge}, MaxRows) : DupFree(s)}
    /\ users = << >>
    /\ mutex = [w |-> FALSE, r |-> 0]
    /\ loopVar = [p \in Procs |-> NoUser]
    /\ perIter \in BOOLEAN
    /\ proc = [p \in Procs |-> Idle]
    /\ last = [p \in Procs |-> NoCall]

\* -------------------------------------------------------- UserCache (pure)
\* c.mutex.RLock() may proceed (main.go:47, 60)
CanRLock(m) == ~m.w

\* faulty variants of CanLock: the lock is granted while readers hold it;
\* the lock is granted while a writer holds it
CanLock_IgnoreReaders(m) == ~m.w

CanLock_NoWriterTest(m) == m.r = 0

\* c.mutex.Lock() may proceed (main.go:54)
CanLock(m) == ~m.w /\ m.r = 0

\* faulty variant of RUnlock: the read lock is not given back
RUnlock_Forgotten(m) == m

\* the deferred c.mutex.RUnlock() (main.go:48, 61)
RUnlock(m) == [m EXCEPT !.r = @ - 1]

\* faulty variant of Unlock: the write lock is not given back
Unlock_Forgotten(m) == m

\* the deferred c.mutex.Unlock() (main.go:55)
Unlock(m) == [m EXCEPT !.w = FALSE]

\* user, found := c.users[email] (main.go:49)
CacheFound(m, email) == email \in DOMAIN m
CacheGet(m, email) == IF email \in DOMAIN m THEN m[email] ELSE NilPtr

\* faulty variant of CacheSet: the map is replaced by one holding the new entry
CacheSet_Replace(m, email, ptr) == (email :> ptr)

\* faulty variant of CacheSet: a map of one entry, a new key evicts the old one
CacheSet_Evicting(m, email, ptr) ==
    IF email \in DOMAIN m THEN (email :> ptr) @@ m ELSE (email :> ptr)

\* c.users[email] = user (main.go:56)
CacheSet(m, email, ptr) == (email :> ptr) @@ m

\* the orders in which `range c.users` may visit the keys (main.go:63)
Orders(S) == {f \in [1..Cardinality(S) -> S] : \A i, j \in DOMAIN f : i # j => f[i] # f[j]}

\* users = append(users, *user) for every entry (main.go:62-66)
CacheList(m) ==
    UNION {{s \in [DOMAIN o -> UNION {DerefAny(m[k]) : k \in DOMAIN m}] :
               \A i \in DOMAIN o : s[i] \in DerefAny(m[o[i]])} :
           o \in Orders(DOMAIN m)}

\* ---------------------------------------------------------- UserRep (pure)
\* INSERT INTO users (main.go:133): the table has no UNIQUE constraint on
\* email (main.go:277-283), so the row is appended whatever the table holds
RepInsert(rows, u) == Append(rows, u)

\* SELECT ... FROM users (main.go:138-152)
RepSelectAll(rows) == rows

Matching(rows, email) == {i \in DOMAIN rows : rows[i].email = email}

\* SELECT ... WHERE email = $1, QueryRow + Scan: the first matching row in
\* rowid order, or (nil, nil) on sql.ErrNoRows (main.go:155-163)
RepSelectByEmail(rows, email) ==
    IF Matching(rows, email) = {} THEN NilPtr
    ELSE Own(rows[CHOOSE i \in Matching(rows, email) :
                     \A j \in Matching(rows, email) : i <= j])

\* ---------------------------------------------------- CachedUserRep (pure)
\* faulty variants of CreateAfterRep: the record is never cached; it is cached
\* whatever the repository answered
CreateAfterRep_NoSet(err) == [pc |-> "return", err |-> err]
CreateAfterRep_AlwaysSet(err) == [pc |-> "Set.Lock", err |-> err]

\* faulty variant of CreateAfterRep: a failed INSERT is tried again
CreateAfterRep_Retry(err) ==
    [pc |-> IF err = Nil THEN "Set.Lock" ELSE "rep.Create", err |-> err]

\* if err == nil { c.cache.Set(...) }; return err (main.go:83-86)
CreateAfterRep(err) ==
    [pc |-> IF err = Nil THEN "Set.Lock" ELSE "return", err |-> err]

\* faulty variants of ListFromCache: the test is len >= 0; the test is len > 1
ListFromCache_Always(cachedUsers) == Len(cachedUsers) >= 0
ListFromCache_OffByOne(cachedUsers) == Len(cachedUsers) > 1

\* if len(cachedUsers) > 0 { return cachedUsers, nil } (main.go:91-93)
ListFromCache(cachedUsers) == Len(cachedUsers) > 0

\* faulty variant of ListAfterRep: a failed query is returned as a success
ListAfterRep_Swallow(err) == [pc |-> "return", err |-> Nil]

\* if err == nil { for _, user := range users {...} } (main.go:96-100)
ListAfterRep(err) ==
    [pc |-> IF err = Nil THEN "range" ELSE "return", err |-> err]

\* &user inside the range loop (main.go:97-98)
LoopAddr(p, u) == IF perIter THEN Own(u) ELSE LoopPtr(p)

\* faulty variants of GetAfterRep: a found record is returned without being cached;
\* the answer is cached without the test user != nil
GetAfterRep_NoSet(ptr, err) ==
    IF err = ErrNoRows THEN [pc |-> "return", res |-> NilPtr, err |-> Nil]
    ELSE [pc |-> "return", res |-> ptr, err |-> err]
GetAfterRep_NoNilTest(ptr, err) ==
    IF err = ErrNoRows THEN [pc |-> "return", res |-> NilPtr, err |-> Nil]
    ELSE IF err = Nil THEN [pc |-> "Set.Lock", res |-> ptr, err |-> err]
    ELSE [pc |-> "return", res |-> ptr, err |-> err]

\* the tail of GetByEmail after c.rep.GetByEmail (main.go:111-117):
\* the next location, the returned pointer and the returned error
GetAfterRep(ptr, err) ==
    IF err = ErrNoRows THEN [pc |-> "return", res |-> NilPtr, err |-> Nil]
    ELSE IF err = Nil /\ ptr.kind # "nil" THEN [pc |-> "Set.Lock", res |-> ptr, err |-> err]
    ELSE [pc |-> "return", res |-> ptr, err |-> err]

\* ---------------------------------------------------------------- helpers
Upd(p, r) == proc' = [proc EXCEPT ![p] = r]
At(p, loc) == proc[p].pc = loc

\* INSERTs that callers already under way may still issue
PendingInserts ==
    Cardinality({q \in Procs :
        \/ proc[q].pc = "rep.Create"
        \/ proc[q].outer = "ServCreate" /\ proc[q].op = "GetByEmail"})

MayInsert == Len(db) + PendingInserts < MaxRows

\* ------------------------------------------------- CachedUserRep.Create
\* a caller invokes c.Create(ctx, user) (main.go:81)
CallCreate(p) ==
    /\ At(p, "idle")
    /\ MayInsert
    /\ \E u \in User :
         Upd(p, [Idle EXCEPT !.pc = "rep.Create", !.op = "Create", !.user = u])
    /\ UNCHANGED <<db, users, mutex, loopVar, perIter, last>>

\* err := c.rep.Create(ctx, user); if err == nil ... (main.go:82-83)
RepCreate(p) ==
    /\ At(p, "rep.Create")
    /\ \/ /\ db' = RepInsert(db, proc[p].user)
          /\ Upd(p, [proc[p] EXCEPT !.pc = CreateAfterRep(Nil).pc, !.rerr = Nil,
                                    !.err = CreateAfterRep(Nil).err,
                                    !.calls = @ + 1])
       \/ /\ \E e \in StoreErrors :
               Upd(p, [proc[p] EXCEPT !.pc = CreateAfterRep(e).pc, !.rerr = e,
                                      !.err = CreateAfterRep(e).err,
                                      !.calls = @ + 1])
          /\ UNCHANGED db
    /\ UNCHANGED <<users, mutex, loopVar, perIter, last>>

\* ------------------------------------------------------- UserCache.Set
\* the key and the pointer the caller passes to c.cache.Set
\* (main.go:84, 98, 115), or a direct caller's own arguments (main.go:53)
SetKey(p) ==
    CASE proc[p].op = "Create" -> proc[p].user.email
      [] proc[p].op = "Set" -> proc[p].email
      [] proc[p].op = "GetByEmail" -> proc[p].email
      [] proc[p].op = "List" ->
           IF perIter THEN proc[p].list[proc[p].idx].email ELSE loopVar[p].email

SetPtr(p) ==
    CASE proc[p].op = "Create" -> Own(proc[p].user)
      [] proc[p].op = "Set" -> Own(proc[p].user)
      [] proc[p].op = "GetByEmail" -> proc[p].res
      [] proc[p].op = "List" -> LoopAddr(p, proc[p].list[proc[p].idx])

\* c.mutex.Lock() (main.go:54)
SetLock(p) ==
    /\ At(p, "Set.Lock")
    /\ CanLock(mutex)
    /\ mutex' = [mutex EXCEPT !.w = TRUE]
    /\ Upd(p, [proc[p] EXCEPT !.pc = "Set.store"])
    /\ UNCHANGED <<db, users, loopVar, perIter, last>>

\* c.users[email] = user; the deferred Unlock; back in the caller: Create and
\* GetByEmail return, List goes on with the next element (main.go:55-57)
SetStore(p) ==
    /\ At(p, "Set.store")
    /\ users' = CacheSet(users, SetKey(p), SetPtr(p))
    /\ mutex' = Unlock(mutex)
    /\ Upd(p, IF proc[p].op = "List"
              THEN [proc[p] EXCEPT !.pc = "range", !.idx = @ + 1]
              ELSE [proc[p] EXCEPT !.pc = "return"])
    /\ UNCHANGED <<db, loopVar, perIter, last>>

\* --------------------------------------------------- CachedUserRep.List
\* a caller invokes c.List(ctx) (main.go:89)
CallList(p) ==
    /\ At(p, "idle")
    /\ Upd(p, [Idle EXCEPT !.pc = "List.RLock", !.op = "List"])
    /\ UNCHANGED <<db, users, mutex, loopVar, perIter, last>>

\* UserCache.List: c.mutex.RLock() (main.go:60)
CListRLock(p) ==
    /\ At(p, "List.RLock")
    /\ CanRLock(mutex)
    /\ mutex' = [mutex EXCEPT !.r = @ + 1]
    /\ Upd(p, [proc[p] EXCEPT !.pc = "List.copy"])
    /\ UNCHANGED <<db, users, loopVar, perIter, last>>

\* UserCache.List copies the entries and unlocks (main.go:61-66); the proxy
\* returns the copy when it is not empty (main.go:90-93); a direct caller of
\* the cache gets the copy as it is (main.go:66)
CListCopy(p) ==
    /\ At(p, "List.copy")
    /\ mutex' = RUnlock(mutex)
    /\ \E cachedUsers \in CacheList(users) :
         Upd(p, IF proc[p].op = "CacheList"
                THEN [proc[p] EXCEPT !.pc = "return", !.list = cachedUsers]
                ELSE IF ListFromCache(cachedUsers)
                THEN [proc[p] EXCEPT !.pc = "return", !.list = cachedUsers,
                                     !.hit = TRUE]
                ELSE [proc[p] EXCEPT !.pc = "rep.List"])
    /\ UNCHANGED <<db, users, loopVar, perIter, last>>

\* users, err := c.rep.List(ctx); if err == nil ... (main.go:95-96)
RepList(p) ==
    /\ At(p, "rep.List")
    /\ \/ Upd(p, [proc[p] EXCEPT !.pc = ListAfterRep(Nil).pc,
                                 !.list = RepSelectAll(db), !.idx = 1,
                                 !.rerr = Nil, !.err = ListAfterRep(Nil).err,
                                 !.calls = @ + 1])
       \/ \E e \in StoreErrors :
            Upd(p, [proc[p] EXCEPT !.pc = ListAfterRep(e).pc, !.rerr = e,
                                   !.err = ListAfterRep(e).err, !.calls = @ + 1])
    /\ UNCHANGED <<db, users, mutex, loopVar, perIter, last>>

\* for _, user := range users: the loop ends and List returns users, err, or
\* it goes on with the next element, in a fresh variable or, where the build
\* keeps one variable for the whole loop, by copying over it (main.go:97, 101)
ListRange(p) ==
    /\ At(p, "range")
    /\ Upd(p, IF proc[p].idx > Len(proc[p].list)
              THEN [proc[p] EXCEPT !.pc = "return", !.idx = 0]
              ELSE IF perIter THEN [proc[p] EXCEPT !.pc = "Set.Lock"]
              ELSE [proc[p] EXCEPT !.pc = "range.copy"])
    /\ UNCHANGED <<db, users, mutex, loopVar, perIter, last>>

\* the copy of users[idx] into the one loop variable is complete (main.go:97)
ListAssign(p) ==
    /\ At(p, "range.copy")
    /\ loopVar' = [loopVar EXCEPT ![p] = proc[p].list[proc[p].idx]]
    /\ Upd(p, [proc[p] EXCEPT !.pc = "Set.Lock"])
    /\ UNCHANGED <<db, users, mutex, perIter, last>>

\* --------------------------------------------- CachedUserRep.GetByEmail
\* a caller invokes c.GetByEmail(email) (main.go:104)
CallGetByEmail(p) ==
    /\ At(p, "idle")
    /\ \E e \in Emails :
         Upd(p, [Idle EXCEPT !.pc = "Get.RLock", !.op = "GetByEmail", !.email = e])
    /\ UNCHANGED <<db, users, mutex, loopVar, perIter, last>>

\* UserCache.Get: c.mutex.RLock() (main.go:47)
GetRLock(p) ==
    /\ At(p, "Get.RLock")
    /\ CanRLock(mutex)
    /\ mutex' = [mutex EXCEPT !.r = @ + 1]
    /\ Upd(p, [proc[p] EXCEPT !.pc = "Get.read"])
    /\ UNCHANGED <<db, users, loopVar, perIter, last>>

\* UserCache.Get reads the entry and unlocks (main.go:48-50); the proxy
\* returns it when found (main.go:105-108); a direct caller of the cache gets
\* user, found (main.go:50)
GetRead(p) ==
    /\ At(p, "Get.read")
    /\ mutex' = RUnlock(mutex)
    /\ Upd(p, IF proc[p].op = "Get"
              THEN [proc[p] EXCEPT !.pc = "return",
                                   !.hit = CacheFound(users, proc[p].email),
                                   !.res = CacheGet(users, proc[p].email)]
              ELSE IF CacheFound(users, proc[p].email)
              THEN [proc[p] EXCEPT !.pc = "return", !.hit = TRUE,
                                   !.res = CacheGet(users, proc[p].email)]
              ELSE [proc[p] EXCEPT !.pc = "rep.GetByEmail"])
    /\ UNCHANGED <<db, users, loopVar, perIter, last>>

\* user, err := c.rep.GetByEmail(email) and the tail of the proxy's
\* GetByEmail (main.go:110-117).  UserRep.GetByEmail answers (nil, nil) for no
\* row, (&user, nil) for a row, and (&user, err) with the zero user when the
\* query fails (main.go:156-162)
RepGetByEmail(p) ==
    /\ At(p, "rep.GetByEmail")
    /\ \E out \in {[ptr |-> RepSelectByEmail(db, proc[p].email), err |-> Nil]}
                    \cup {[ptr |-> Own(NoUser), err |-> e] : e \in StoreErrors} :
         LET t == GetAfterRep(out.ptr, out.err)
         IN Upd(p, [proc[p] EXCEPT !.pc = t.pc, !.res = t.res, !.rerr = out.err,
                                   !.err = t.err, !.calls = @ + 1])
    /\ UNCHANGED <<db, users, mutex, loopVar, perIter, last>>

\* ------------------------------------------- UserCache, called directly
\* a goroutine calls c.Set(email, &user), once (main.go:53)
CallSet(p) ==
    /\ At(p, "idle")
    /\ last[p].op = "none"
    /\ \E e \in Emails, u \in User :
         Upd(p, [Idle EXCEPT !.pc = "Set.Lock", !.op = "Set", !.email = e,
                             !.user = u])
    /\ UNCHANGED <<db, users, mutex, loopVar, perIter, last>>

\* a goroutine calls c.Get(email) (main.go:46)
CallCacheGet(p) ==
    /\ At(p, "idle")
    /\ \E e \in Emails :
         Upd(p, [Idle EXCEPT !.pc = "Get.RLock", !.op = "Get", !.email = e])
    /\ UNCHANGED <<db, users, mutex, loopVar, perIter, last>>

\* the Set calls that have returned: those a caller keeps as its last call
SetsReturned ==
    {[email |-> last[q].email, user |-> last[q].user] :
        q \in {r \in Procs : last[r].op = "Set"}}

\* a goroutine calls c.List() (main.go:59); it notes (for the checks) which
\* Set calls have returned by then
CallCacheList(p) ==
    /\ At(p, "idle")
    /\ Upd(p, [Idle EXCEPT !.pc = "List.RLock", !.op = "CacheList",
                           !.seen = SetsReturned])
    /\ UNCHANGED <<db, users, mutex, loopVar, perIter, last>>

\* ------------------------------------------------------------- UserServ
\* faulty variant of AgeRejected: the limit is one year too low
AgeRejected_OffByOne(u) == u.age < AdultAge - 1

\* if user.Age < 18 (main.go:177)
AgeRejected(u) == u.age < AdultAge

\* a caller invokes u.Create(ctx, user): the age rule, then
\* u.rep.GetByEmail(user.Email) on the proxy (main.go:176-181)
CallServCreate(p) ==
    /\ At(p, "idle")
    /\ MayInsert
    /\ \E u \in User :
         Upd(p, IF AgeRejected(u)
                THEN [Idle EXCEPT !.pc = "return", !.outer = "ServCreate",
                                  !.user = u, !.err = ErrAge]
                ELSE [Idle EXCEPT !.pc = "Get.RLock", !.outer = "ServCreate",
                                  !.op = "GetByEmail", !.user = u,
                                  !.email = u.email])
    /\ UNCHANGED <<db, users, mutex, loopVar, perIter, last>>

\* what UserServ.Create does with the answer of GetByEmail (main.go:182-189)
ServDecide(res, err) ==
    IF err # Nil THEN [pc |-> "return", op |-> "none", err |-> err]
    ELSE IF res.kind # "nil" THEN [pc |-> "return", op |-> "none", err |-> ErrDup]
    ELSE [pc |-> "rep.Create", op |-> "Create", err |-> Nil]

\* the proxy's GetByEmail has returned into UserServ.Create (main.go:181-189)
ServAfterGet(p) ==
    /\ At(p, "return")
    /\ proc[p].outer = "ServCreate" /\ proc[p].op = "GetByEmail"
    /\ LET t == ServDecide(proc[p].res, proc[p].err)
       IN Upd(p, [proc[p] EXCEPT !.pc = t.pc, !.op = t.op, !.err = t.err,
                                 !.rerr = Nil, !.res = NilPtr, !.hit = FALSE])
    /\ UNCHANGED <<db, users, mutex, loopVar, perIter, last>>

\* a caller invokes u.List(ctx), which is the proxy's List (main.go:192-194)
CallServList(p) ==
    /\ At(p, "idle")
    /\ Upd(p, [Idle EXCEPT !.pc = "List.RLock", !.outer = "ServList", !.op = "List"])
    /\ UNCHANGED <<db, users, mutex, loopVar, perIter, last>>

\* --------------------------------------------------------------- return
\* the call the caller made returns; what the caller has in hand then: the
\* call and its arguments, the results, and (for the checks) the error the
\* repository gave, the number of repository calls, and the cache as it is
Summary(p) ==
    [op |-> IF proc[p].outer # "none" THEN proc[p].outer ELSE proc[p].op,
     user |-> proc[p].user, email |-> proc[p].email,
     res |-> proc[p].res, rec |-> Deref(proc[p].res),
     list |-> proc[p].list, rerr |-> proc[p].rerr, err |-> proc[p].err,
     calls |-> proc[p].calls, hit |-> proc[p].hit, cache |-> users]

Returns(p) ==
    /\ At(p, "return")
    /\ ~(proc[p].outer = "ServCreate" /\ proc[p].op = "GetByEmail")

\* the call returns to its caller
Return(p) ==
    /\ Returns(p)
    /\ Upd(p, Idle)
    /\ UNCHANGED <<db, users, mutex, loopVar, perIter, last>>

\* the call returns to a caller that keeps what it got, to compare it with
\* what the next call gives
ReturnKept(p) ==
    /\ Returns(p)
    /\ last' = [last EXCEPT ![p] = Summary(p)]
    /\ Upd(p, Idle)
    /\ UNCHANGED <<db, users, mutex, loopVar, perIter>>

\* ------------------------------------------------------- specifications
\* the steps inside the cache, the proxy and the repository
Inner(p) ==
    \/ RepCreate(p) \/ SetLock(p) \/ SetStore(p)
    \/ CListRLock(p) \/ CListCopy(p) \/ RepList(p) \/ ListRange(p) \/ ListAssign(p)
    \/ GetRLock(p) \/ GetRead(p) \/ RepGetByEmail(p)

\* the service as main wires it: every request goes through UserServ
Next ==
    \E p \in Procs :
        CallServCreate(p) \/ CallServList(p) \/ ServAfterGet(p) \/ Inner(p)
            \/ Return(p)

Spec == Init /\ [][Next]_vars

\* concurrent callers of the proxy's own contract
ProxyNext ==
    \E p \in Procs :
        CallCreate(p) \/ CallList(p) \/ CallGetByEmail(p) \/ Inner(p) \/ Return(p)

ProxySpec == Init /\ [][ProxyNext]_vars

\* one caller of the proxy's contract, one call after the other
SeqNext ==
    \E p \in {1} :
        CallCreate(p) \/ CallList(p) \/ CallGetByEmail(p) \/ Inner(p) \/ ReturnKept(p)

SeqSpec == Init /\ [][SeqNext]_vars

\* goroutines on the cache alone, over an empty table: each calls Set at most
\* once and keeps that call, and calls Get and List at will
CacheInit == Init /\ db = << >>

SetReturn(p) == proc[p].op = "Set" /\ ReturnKept(p)

ReadReturn(p) == proc[p].op # "Set" /\ Return(p)

CacheNext ==
    \E p \in Procs :
        \/ CallSet(p) \/ CallCacheGet(p) \/ CallCacheList(p)
        \/ SetLock(p) \/ SetStore(p) \/ GetRLock(p) \/ GetRead(p)
        \/ CListRLock(p) \/ CListCopy(p)
        \/ SetReturn(p) \/ ReadReturn(p)

CacheSpec == CacheInit /\ [][CacheNext]_vars

\* finitely many operations: concurrent callers of the proxy, one call each,
\* every goroutine that can take a step eventually taking one, and every
\* repository call returning
FirstCall(p) ==
    last[p].op = "none" /\ (CallCreate(p) \/ CallList(p) \/ CallGetByEmail(p))

Step(p) == Inner(p) \/ ReturnKept(p)

LiveNext == \E p \in Procs : FirstCall(p) \/ Step(p)

LiveSpec ==
    Init /\ [][LiveNext]_vars /\ \A p \in Procs : WF_vars(Step(p))

\* ----------------------------------------------------------------- claims
\* a call of the proxy's `name` by p has run to its return statement
Done(p, name) == At(p, "return") /\ proc[p].outer = "none" /\ proc[p].op = name

\* C1 (cache-after-create).  A GetByEmail(r.Email) that follows a successful
\* Create(r) returns a record equal to r, without error, and makes no call to
\* the repository.
C1_CacheAfterCreate ==
    \A p \in Procs :
        (/\ Done(p, "GetByEmail")
         /\ last[p].op = "Create" /\ last[p].err = Nil
         /\ last[p].user.email = proc[p].email)
        => /\ proc[p].err = Nil
           /\ proc[p].res.kind # "nil"
           /\ Deref(proc[p].res) = last[p].user
           /\ proc[p].calls = 0

C1_Witness ==
    \E p \in Procs :
        /\ Done(p, "GetByEmail")
        /\ last[p].op = "Create" /\ last[p].err = Nil
        /\ last[p].user.email = proc[p].email
        /\ last[p].calls = 1
        /\ Len(db) = 2 /\ db[1].email = proc[p].email /\ db[1] # last[p].user

\* C2 (error passthrough on create).  When the repository's Create fails, the
\* proxy's Create returns that same failure and the cache is exactly what it
\* was before the call.
C2_CreateErrorPassthrough ==
    \A p \in Procs :
        (Done(p, "Create") /\ proc[p].rerr # Nil)
        => /\ proc[p].err = proc[p].rerr
           /\ users = last[p].cache

C2_Witness ==
    \E p \in Procs :
        /\ Done(p, "Create") /\ proc[p].rerr \in StoreErrors
        /\ last[p].op = "Create" /\ last[p].err = Nil
        /\ last[p].user.email = proc[p].user.email
        /\ last[p].user # proc[p].user

\* C3 (cache/store consistency under concurrent access).  When a Create for
\* email e, or a GetByEmail(e) that found e in the repository, returns
\* successfully, the cache holds an entry for e equal to the record the
\* repository returns for e at that moment.
C3_CacheStoreConsistent ==
    \A p \in Procs :
        LET e == IF proc[p].op = "Create" THEN proc[p].user.email ELSE proc[p].email
        IN (/\ proc[p].err = Nil
            /\ \/ Done(p, "Create")
               \/ Done(p, "GetByEmail") /\ ~proc[p].hit /\ proc[p].res.kind # "nil")
           => /\ CacheFound(users, e)
              /\ RepSelectByEmail(db, e).kind # "nil"
              /\ Deref(CacheGet(users, e)) = Deref(RepSelectByEmail(db, e))

\* C4 (transparent proxy for list).  With no other call in progress and the
\* repository not failing, the proxy's List returns exactly the set of
\* records the repository's List returns at that moment (stated here for a
\* table with one row per email, where the two lists could agree).
C4_ListTransparent ==
    \A p \in Procs :
        (Done(p, "List") /\ proc[p].err = Nil /\ DupFree(db))
        => Range(proc[p].list) = Range(RepSelectAll(db))

\* C5 (email uniqueness).  Whatever the interleaving of UserServ.Create
\* calls, no two rows of the table have the same email.
C5_EmailUnique == DupFree(db)

\* C6 (miss-then-populate).  A GetByEmail(e) for an e that is not in the cache
\* and is in the table returns the repository's record and leaves it in the
\* cache under e; the next GetByEmail(e) makes no repository call and returns
\* the same record.  (The repository answering the lookup is the claim's case.)
C6_MissThenPopulate ==
    \A p \in Procs :
        /\ (/\ Done(p, "GetByEmail") /\ ~proc[p].hit /\ proc[p].rerr = Nil
            /\ Matching(db, proc[p].email) # {})
           => /\ proc[p].err = Nil
              /\ proc[p].res = RepSelectByEmail(db, proc[p].email)
              /\ proc[p].calls = 1
              /\ CacheFound(users, proc[p].email)
              /\ CacheGet(users, proc[p].email) = proc[p].res
        /\ (/\ Done(p, "GetByEmail")
            /\ last[p].op = "GetByEmail" /\ last[p].email = proc[p].email
            /\ ~last[p].hit /\ last[p].err = Nil /\ last[p].res.kind # "nil")
           => /\ proc[p].calls = 0
              /\ proc[p].err = Nil
              /\ Deref(proc[p].res) = last[p].rec

C6_Witness ==
    \E p \in Procs :
        /\ Done(p, "GetByEmail") /\ proc[p].hit
        /\ last[p].op = "GetByEmail" /\ last[p].email = proc[p].email
        /\ ~last[p].hit /\ last[p].calls = 1 /\ last[p].res.kind # "nil"
        /\ last[p].rec \in Range(db)

C7_WitnessCold ==
    \E p \in Procs :
        /\ Done(p, "List") /\ ~proc[p].hit /\ proc[p].calls = 1
        /\ Len(proc[p].list) = 2

\* C8 (cold list population).  After a List that found the cache empty and got
\* the rows from the repository, the cache holds under every returned
\* record's email an entry equal to that record.
C8_ColdListPopulates ==
    \A p \in Procs :
        (Done(p, "List") /\ ~proc[p].hit /\ proc[p].err = Nil)
        => \A i \in DOMAIN proc[p].list :
              /\ CacheFound(users, proc[p].list[i].email)
              /\ Deref(CacheGet(users, proc[p].list[i].email)) = proc[p].list[i]

\* C9 (List cold-start re-query).  While the table holds no row, every List
\* call queries the repository (two calls in a row make two queries), returns
\* the repository's empty result without error, and leaves the cache empty.
C9_ColdStartRequery ==
    \A p \in Procs :
        (Done(p, "List") /\ db = << >>)
        => /\ ~proc[p].hit
           /\ proc[p].calls = 1
           /\ proc[p].rerr = Nil => (proc[p].err = Nil /\ proc[p].list = << >>)
           /\ users = << >>
           /\ last[p].op = "List" => last[p].calls = 1

C9_Witness ==
    \E p \in Procs :
        /\ Done(p, "List") /\ db = << >>
        /\ proc[p].calls = 1 /\ proc[p].err = Nil /\ proc[p].list = << >>
        /\ last[p].op = "List" /\ last[p].calls = 1 /\ last[p].err = Nil

\* C10 (not-found mapping).  A GetByEmail(e) for an e in neither the cache nor
\* the table returns no record and no error and leaves the cache without an
\* entry for e.  (The repository answering the lookup is the claim's case.)
C10_NotFound ==
    \A p \in Procs :
        (/\ Done(p, "GetByEmail") /\ ~proc[p].hit /\ proc[p].rerr = Nil
         /\ Matching(db, proc[p].email) = {})
        => /\ proc[p].res = NilPtr
           /\ proc[p].err = Nil
           /\ ~CacheFound(users, proc[p].email)

C10_Witness ==
    \E p \in Procs :
        /\ Done(p, "GetByEmail") /\ ~proc[p].hit /\ proc[p].rerr = Nil
        /\ proc[p].calls = 1
        /\ Matching(db, proc[p].email) = {}
        /\ db # << >> /\ users # << >>

\* C11 (read failure passthrough).  When the repository fails during a
\* GetByEmail that missed the cache or during a List on an empty cache, the
\* proxy returns that failure, not a success, and the cache is what it was
\* before the call.
C11_ReadErrorPassthrough ==
    \A p \in Procs :
        ((Done(p, "GetByEmail") \/ Done(p, "List")) /\ proc[p].rerr # Nil)
        => /\ proc[p].err = proc[p].rerr
           /\ proc[p].err \in StoreErrors
           /\ ~proc[p].hit
           /\ users = last[p].cache

\* a failed List over a table that holds rows, after a GetByEmail that failed
\* too and so left the cache empty
C11_Witness ==
    \E p \in Procs :
        /\ Done(p, "List") /\ proc[p].rerr \in StoreErrors
        /\ db # << >>
        /\ last[p].op = "GetByEmail" /\ last[p].rerr \in StoreErrors
        /\ Matching(db, last[p].email) # {}

\* C12 (concurrent set safety).  With Set calls of pairwise distinct emails,
\* one per goroutine, a UserCache.List that starts after some of them have
\* returned contains the record of every one of those: no update is lost.
OtherSetOn(x) ==
    \E r \in Procs :
        \/ /\ last[r].op = "Set" /\ last[r].email = x.email
           /\ last[r].user # x.user
        \/ /\ proc[r].op = "Set" /\ proc[r].email = x.email
           /\ proc[r].user # x.user

C12_NoLostSet ==
    \A p \in Procs :
        Done(p, "CacheList")
        => \A x \in proc[p].seen :
               ~OtherSetOn(x) => x.user \in Range(proc[p].list)

C12_Witness ==
    \E p \in Procs :
        /\ Done(p, "CacheList")
        /\ Cardinality(proc[p].seen) = 2
        /\ \A x, y \in proc[p].seen : x # y => x.email # y.email
        /\ \E q \in Procs : q # p /\ last[q].op = "Set" /\ last[p].op = "Set"
        /\ Len(proc[p].list) = 2

\* C13 (age rule).  UserServ.Create for a user younger than 18 returns the age
\* error at once: the step that takes the call leaves the table and the cache
\* as they are and goes straight to the return with no repository call, and
\* no row of the table ever has an age below 18.
MinorCall(p) ==
    proc[p].outer = "ServCreate" /\ proc[p].user.age < AdultAge

C13_AgeRule ==
    /\ [](\A p \in Procs :
            MinorCall(p) => /\ At(p, "return") /\ proc[p].op = "none"
                            /\ proc[p].err = ErrAge /\ proc[p].calls = 0)
    /\ [](\A i \in 1..Len(db) : db[i].age >= AdultAge)
    /\ [][\A p \in Procs :
            (MinorCall(p) \/ MinorCall(p)')
            /\ proc[p]' # proc[p]
            => db' = db /\ users' = users /\ mutex' = mutex]_vars

C13_Witness ==
    \E p \in Procs :
        /\ MinorCall(p) /\ At(p, "return") /\ proc[p].err = ErrAge
        /\ db # << >> /\ DOMAIN users # {}
        /\ \E q \in Procs : q # p /\ At(q, "rep.Create")

\* the locked sections of UserCache: between Lock and Unlock of Set
\* (main.go:54-57), between RLock and RUnlock of Get and List (main.go:47-50,
\* 60-66)
InWrite(p) == At(p, "Set.store")

InRead(p) == At(p, "Get.read") \/ At(p, "List.copy")

\* C14 (reader/writer lock discipline).  While a Set is inside its locked
\* section no other Get, List or Set is inside its own; and readers share:
\* with no Set inside, a Get or List waiting for the read lock can take it,
\* however many readers are inside.
C14_LockDiscipline ==
    /\ \A p, q \in Procs :
           (p # q /\ InWrite(p)) => ~InWrite(q) /\ ~InRead(q)
    /\ \A p \in Procs :
           (\A q \in Procs : ~InWrite(q))
           => /\ At(p, "Get.RLock") => ENABLED GetRLock(p)
              /\ At(p, "List.RLock") => ENABLED CListRLock(p)

C14_Witness ==
    /\ \A p \in Procs : InRead(p)
    /\ \E p, q \in Procs : At(p, "Get.read") /\ At(q, "List.copy")
    /\ DOMAIN users # {}

\* C15 (Set calls for different keys).  As the claim is stated: a Set waiting
\* for the lock is not held up by a Set of another email that is inside its
\* locked section.
C15_DifferentKeysDoNotBlock ==
    \A p, q \in Procs :
        (p # q /\ At(p, "Set.Lock") /\ InWrite(q) /\ SetKey(p) # SetKey(q))
        => ENABLED SetLock(p)

\* C15, as the code has it.  The cache has one lock for all keys: a Set
\* waiting for the lock cannot take it while another Set, of whatever email,
\* is inside its locked section, and two Sets are never inside together.
C15_SetsExcludeEachOther ==
    \A p, q \in Procs :
        p # q =>
            /\ (At(p, "Set.Lock") /\ InWrite(q)) => ~ENABLED SetLock(p)
            /\ ~(At(p, "Set.store") /\ At(q, "Set.store"))

C15_Witness ==
    \E p, q \in Procs :
        /\ p # q /\ At(p, "Set.Lock") /\ InWrite(q)
        /\ proc[p].op = "Set" /\ proc[q].op = "Set"
        /\ SetKey(p) # SetKey(q)

\* the caller's repository call is in progress (main.go:82, 95, 110)
InStore(p) ==
    At(p, "rep.Create") \/ At(p, "rep.List") \/ At(p, "rep.GetByEmail")

\* C16 (no Store call under the Cache lock).  The lock is held exactly by the
\* callers inside a locked section of the cache, and a caller whose repository
\* call is in progress is in none: it holds neither the read nor the write
\* lock.
C16_NoStoreCallUnderLock ==
    /\ mutex.r = Cardinality({q \in Procs : InRead(q)})
    /\ mutex.w = (\E q \in Procs : InWrite(q))
    /\ \A p \in Procs : InStore(p) => ~InRead(p) /\ ~InWrite(p)
    /\ (\A p \in Procs : InStore(p)) => mutex.r = 0 /\ ~mutex.w

C16_Witness ==
    /\ \A p \in Procs : InStore(p)
    /\ \E p \in Procs : At(p, "rep.GetByEmail")
    /\ \E p \in Procs : At(p, "rep.List")
    /\ mutex.r = 0 /\ ~mutex.w

\* C17 (no retries).  A proxy operation makes at most one repository call:
\* Create exactly one, GetByEmail and List none when served from the cache and
\* one otherwise; a repository call in progress is the operation's first, and
\* a repository failure is what the operation returns after that one call.
C17_NoRetries ==
    \A p \in Procs :
        /\ proc[p].calls <= 1
        /\ InStore(p) => proc[p].calls = 0
        /\ Done(p, "Create") => proc[p].calls = 1
        /\ (Done(p, "GetByEmail") \/ Done(p, "List"))
           => proc[p].calls = (IF proc[p].hit THEN 0 ELSE 1)
        /\ (proc[p].rerr \in StoreErrors)
           => At(p, "return") /\ proc[p].err = proc[p].rerr /\ proc[p].calls = 1

C17_Witness ==
    \E p, q \in Procs :
        /\ Done(p, "Create") /\ proc[p].rerr \in StoreErrors /\ proc[p].calls = 1
        /\ Done(q, "GetByEmail") /\ proc[q].hit /\ proc[q].calls = 0

\* C18 (the cache never shrinks).  No step of any interleaving of proxy
\* operations, with the cache operations they make, removes an email from the
\* cache: an email once present stays present.
C18_CacheNeverShrinks ==
    [][DOMAIN users \subseteq DOMAIN users']_vars

C18_Witness ==
    /\ Cardinality(DOMAIN users) = NumEmails
    /\ \E p \in Procs : At(p, "Set.store") /\ SetKey(p) \in DOMAIN users
    /\ \E p \in Procs : Done(p, "Create") /\ proc[p].err = Nil

\* C19 (the cache is backed by the Store).  Every email with an entry in the
\* cache has a row in the table, and what the entry reads as, whoever reads
\* it, is a row of that email.
C19_CacheBackedByStore ==
    \A e \in DOMAIN users :
        /\ Matching(db, e) # {}
        /\ \A r \in DerefAny(users[e]) : r \in {db[i] : i \in Matching(db, e)}

\* C20 (progress).  With callers that each make one proxy call, fair
\* scheduling and repository calls that return: whenever some call is under
\* way some goroutine can take a step (no deadlock on the cache lock), every
\* call under way eventually returns, and a Set waiting for the lock
\* eventually gets it, readers or not.
C20_Progress ==
    /\ []((\E p \in Procs : ~At(p, "idle")) => (\E q \in Procs : ENABLED Step(q)))
    /\ \A p \in Procs : ~At(p, "idle") ~> At(p, "idle")
    /\ \A p \in Procs : At(p, "Set.Lock") ~> At(p, "Set.store")
    /\ \A p \in Procs : At(p, "Get.RLock") ~> At(p, "Get.read")
    /\ \A p \in Procs : At(p, "List.RLock") ~> At(p, "List.copy")

C20_Witness ==
    \E p, q \in Procs :
        /\ At(p, "Set.Lock") /\ InRead(q)
        /\ ~ENABLED SetLock(p)
        /\ \A r \in Procs : ~At(r, "idle")

====
